---- MODULE Spec2Model ----
(***************************************************************************)
(* Model of the LabVIEW Conan recipe base class (conanfile.py):             *)
(* project discovery, version derivation and the build/package hooks.       *)
(*                                                                         *)
(* Python strings are sequences of one-character strings, so that the       *)
(* string operations the recipe uses (concatenation, split, splitext,       *)
(* fnmatch, int(), str()) are computed and not assumed.                     *)
(***************************************************************************)
EXTENDS Integers, Sequences, FiniteSets, TLC

VARIABLES
    hostNT,     \* TRUE when the interpreter runs on Windows (os.path is ntpath)
    branch,     \* the class attribute LabVIEWConanExtension.branch
    version,    \* self.version of each recipe instance
    name,       \* self.name of each recipe instance
    resolved,   \* what the branch query of each instance's set_version() returned
    op,         \* the hook called last and the instance it was called on
    exc,        \* the exception that call ended with, or NoExc
    gitLog,     \* the git commands that call ran, in order
    queried,    \* the branch, tag and commit count that call got from git
    listing,    \* the directory listing that call read
    located,    \* what _find_project_file() returned in that call
    tool,       \* the command that call handed to self.run()
    checkedOut, \* the branch that call handed to git.checkout()
    copied      \* TRUE when that call ran self.copy()

vars == <<hostNT, branch, version, name, resolved, op, exc, gitLog, queried,
          listing, located, tool, checkedOut, copied>>

----------------------------------------------------------------------------
(* Bounds *)

NumEvals == 1
MaxListing == 3

Evals == 1..NumEvals

----------------------------------------------------------------------------
(* Python values *)

\* Markers that are no Python string: a string is a sequence of characters,
\* and no character is longer than one symbol.
None == <<"None">>
Unset == <<"Unset">>
Fail == <<"Fail">>
NoExc == "NoExc"

Digits == {"0", "1", "2", "3", "4", "5", "6", "7", "8", "9"}

DigitVal(c) ==
    CASE c = "0" -> 0 [] c = "1" -> 1 [] c = "2" -> 2 [] c = "3" -> 3
      [] c = "4" -> 4 [] c = "5" -> 5 [] c = "6" -> 6 [] c = "7" -> 7
      [] c = "8" -> 8 [] c = "9" -> 9

DigitChar(d) ==
    CASE d = 0 -> "0" [] d = 1 -> "1" [] d = 2 -> "2" [] d = 3 -> "3"
      [] d = 4 -> "4" [] d = 5 -> "5" [] d = 6 -> "6" [] d = 7 -> "7"
      [] d = 8 -> "8" [] d = 9 -> "9"

\* str.lower() on one character of the model's alphabet.
LowerChar(c) ==
    CASE c = "A" -> "a" [] c = "B" -> "b" [] c = "L" -> "l" [] c = "V" -> "v"
      [] c = "P" -> "p" [] c = "R" -> "r" [] c = "O" -> "o" [] c = "J" -> "j"
      [] OTHER -> c

Lower(s) == [i \in 1..Len(s) |-> LowerChar(s[i])]

\* str.replace(' ', '_')
ReplaceSpace(s) == [i \in 1..Len(s) |-> IF s[i] = " " THEN "_" ELSE s[i]]

\* int(s): the value of a decimal literal.  Python accepts digits with single
\* underscores between them; every other string of the alphabet is a ValueError.
IsIntLiteral(s) ==
    /\ Len(s) > 0
    /\ s[1] \in Digits
    /\ s[Len(s)] \in Digits
    /\ \A i \in 1..Len(s) : s[i] \in Digits \cup {"_"}
    /\ \A i \in 1..(Len(s) - 1) : ~(s[i] = "_" /\ s[i + 1] = "_")

RECURSIVE IntOf(_)
IntOf(s) ==
    IF Len(s) = 0 THEN 0
    ELSE IF s[Len(s)] = "_" THEN IntOf(SubSeq(s, 1, Len(s) - 1))
    ELSE 10 * IntOf(SubSeq(s, 1, Len(s) - 1)) + DigitVal(s[Len(s)])

\* str(n) for n >= 0
RECURSIVE StrOf(_)
StrOf(n) ==
    IF n < 10 THEN <<DigitChar(n)>>
    ELSE StrOf(n \div 10) \o <<DigitChar(n % 10)>>

\* s.split('.')
RECURSIVE SplitDot(_)
SplitDot(s) ==
    IF \A i \in 1..Len(s) : s[i] # "."
    THEN <<s>>
    ELSE LET d == CHOOSE i \in 1..Len(s) :
                      s[i] = "." /\ \A j \in 1..(i - 1) : s[j] # "."
         IN  <<SubSeq(s, 1, d - 1)>> \o SplitDot(SubSeq(s, d + 1, Len(s)))

\* '.'.join(parts)
RECURSIVE JoinDot(_)
JoinDot(parts) ==
    IF Len(parts) = 0 THEN <<>>
    ELSE IF Len(parts) = 1 THEN parts[1]
    ELSE parts[1] \o <<".">> \o JoinDot(Tail(parts))

----------------------------------------------------------------------------
(* Project locator *)

\* The file names a recipe or source folder may hold.
N_a_lvproj == <<"a", ".", "l", "v", "p", "r", "o", "j">>
N_Bc_lvproj == <<"B", " ", "c", ".", "l", "v", "p", "r", "o", "j">>
N_dot_lvproj == <<".", "l", "v", "p", "r", "o", "j">>
N_A_LVPROJ == <<"A", ".", "L", "V", "P", "R", "O", "J">>
N_r_txt == <<"r", ".", "t", "x", "t">>
N_lvproj == <<"l", "v", "p", "r", "o", "j">>

FileNames == {N_a_lvproj, N_Bc_lvproj, N_dot_lvproj, N_A_LVPROJ, N_r_txt, N_lvproj}

\* os.listdir(): the entries of a directory, each once, in any order.
Listings ==
    UNION {{l \in [1..n -> FileNames] : \A i, j \in 1..n : l[i] = l[j] => i = j}
           : n \in 0..MaxListing}

\* os.path.normcase(): lower-cases on Windows, the identity elsewhere.
Normcase(s) == IF hostNT THEN Lower(s) ELSE s

\* The '.lvproj' of the glob '*.lvproj'.
LvprojExt == <<".", "l", "v", "p", "r", "o", "j">>

\* fnmatch(filename, '*.lvproj'): name and pattern are normcased, '*' matches
\* any prefix (the empty one too) and the rest matches literally.
Fnmatch(filename) ==
    LET n == Normcase(filename)
        p == Normcase(LvprojExt)
    IN  /\ Len(n) >= Len(p)
        /\ SubSeq(n, Len(n) - Len(p) + 1, Len(n)) = p

\* os.path.splitext(p)[0] of a name without directory separators: the name up
\* to its last dot, unless only dots precede that dot.
SplitextRoot(p) ==
    LET dots == {i \in 1..Len(p) : p[i] = "."}
    IN  IF dots = {} THEN p
        ELSE LET dotIndex == CHOOSE i \in dots : \A j \in dots : j <= i
             IN  IF \E k \in 1..(dotIndex - 1) : p[k] # "."
                 THEN SubSeq(p, 1, dotIndex - 1)
                 ELSE p

\* The for loop of _find_project_file: the value of the loop variable when the
\* loop ends, `filename` being its value before the rest `l` is iterated.
RECURSIVE LoopEnd(_, _)
LoopEnd(l, filename) ==
    IF l = <<>> THEN filename
    ELSE IF Fnmatch(Head(l)) THEN Head(l)
    ELSE LoopEnd(Tail(l), Head(l))

find_project_file(l) == SplitextRoot(LoopEnd(l, <<>>))

----------------------------------------------------------------------------
(* Version deriver *)

B_master == <<"m", "a", "s", "t", "e", "r">>
B_dev == <<"d", "e", "v">>

\* What 'git rev-parse --abbrev-ref HEAD' may print.
Branches == {B_master, B_dev}

\* What 'git describe --tags --match "[0-9]*.[0-9]*.[0-9]*" --abbrev=0' may
\* print: every tag below matches that glob.
T_1_2_3 == <<"1", ".", "2", ".", "3">>
T_0_1_9 == <<"0", ".", "1", ".", "9">>
T_1_2_3a == <<"1", ".", "2", ".", "3", "a">>
T_1a_2_3 == <<"1", "a", ".", "2", ".", "3">>
T_1_2_3_4 == <<"1", ".", "2", ".", "3", ".", "4">>
T_1_2_1u0 == <<"1", ".", "2", ".", "1", "_", "0">>

Tags == {T_1_2_3, T_0_1_9, T_1_2_3a, T_1a_2_3, T_1_2_3_4, T_1_2_1u0}

\* What 'git rev-list --count <first> <current>' may print.
Commits == {<<"5">>, <<"1", "2">>}

\* The git commands the recipe runs.
GitBranch == "rev-parse --abbrev-ref HEAD"
GitTag == "describe --tags --match --abbrev=0"
GitCurrent == "rev-parse HEAD"
GitFirst == "rev-list --max-parents=0 HEAD"
GitCount == "rev-list --count"
GitReset == "reset --hard"
GitClone == "clone"
GitCheckout == "checkout"

\* What 'git rev-parse HEAD' and 'git rev-list --max-parents=0 HEAD' print.
CommitId == <<"c">>

FallbackVersion == <<"0", ".", "0", ".", "0", ".", "1">>

\* Line 109: the test for the primary branch.
IsPrimary(b) == b = B_master

\* Line 110 without the separator.
PrimaryVersion_NoSeparator(tag, commit) == tag \o commit

\* Line 110: the version on the primary branch.
PrimaryVersion(tag, commit) == tag \o <<".">> \o commit

\* Line 112: 'major, minor, fix = tag.split('.')' needs exactly three parts,
\* and line 113: int(fix) needs an integer literal.
ParseFails(tag) ==
    LET parts == SplitDot(tag)
    IN  Len(parts) # 3 \/ ~IsIntLiteral(parts[3])

\* Line 113 without the increment.
BumpedVersion_NoIncrement(tag, commit) ==
    LET parts == SplitDot(tag)
    IN  JoinDot(<<parts[1], parts[2], StrOf(IntOf(parts[3])), commit>>)

\* Line 113: the version on any other branch.
BumpedVersion(tag, commit) ==
    LET parts == SplitDot(tag)
    IN  JoinDot(<<parts[1], parts[2], StrOf(IntOf(parts[3]) + 1), commit>>)

\* The git commands set_version() runs when git answers b to the branch
\* query, t to the tag query and cur and first to the commit queries (each the
\* text printed, or Fail): a failed query is the last one run.
GitRan(b, t, cur, first) ==
    IF b = Fail THEN <<GitBranch>>
    ELSE IF t = Fail THEN <<GitBranch, GitTag>>
    ELSE IF cur = Fail THEN <<GitBranch, GitTag, GitCurrent>>
    ELSE IF first = Fail THEN <<GitBranch, GitTag, GitCurrent, GitFirst>>
    ELSE <<GitBranch, GitTag, GitCurrent, GitFirst, GitCount>>

\* set_version() without the try of lines 100-103.
VersionExc_NoTry(b, t, cur, first, n) ==
    IF Fail \in {b, t, cur, first, n} THEN "GitError"
    ELSE IF ~IsPrimary(b) /\ ParseFails(t) THEN "ValueError"
    ELSE NoExc

\* set_version() with lines 112-113 run before the branch test of line 109.
VersionExc_ParseFirst(b, t, cur, first, n) ==
    IF b = Fail THEN NoExc
    ELSE IF Fail \in {t, cur, first, n} THEN "GitError"
    ELSE IF ParseFails(t) THEN "ValueError"
    ELSE NoExc

\* The exception set_version() ends with.  The try of lines 100-103 covers the
\* branch query alone; the else block of lines 105-113 is not covered by it.
VersionExc(b, t, cur, first, n) ==
    IF b = Fail THEN NoExc
    ELSE IF Fail \in {t, cur, first, n} THEN "GitError"
    ELSE IF ~IsPrimary(b) /\ ParseFails(t) THEN "ValueError"
    ELSE NoExc

\* set_version() with the try of lines 100-103 around every query.
VersionAfter_CatchAll(old, b, t, cur, first, n) ==
    IF Fail \in {b, t, cur, first, n} THEN FallbackVersion
    ELSE IF ~IsPrimary(b) /\ ParseFails(t) THEN old
    ELSE IF IsPrimary(b) THEN PrimaryVersion(t, n)
    ELSE BumpedVersion(t, n)

\* self.version after set_version(), `old` being its value before.
VersionAfter(old, b, t, cur, first, n) ==
    IF b = Fail THEN FallbackVersion
    ELSE IF VersionExc(b, t, cur, first, n) # NoExc THEN old
    ELSE IF IsPrimary(b) THEN PrimaryVersion(t, n)
    ELSE BumpedVersion(t, n)

NoQuery == [branch |-> None, tag |-> None, commit |-> None]
NoListing == <<None>>
\* os.listdir() raising: the folder is missing.
ListFail == <<Fail>>
NoCmd == [lv_version |-> None, vi |-> None, parameters |-> None]

\* Conan loads the recipe again and constructs a new instance in place of
\* instance e: the instance attributes start afresh, the class attribute
\* stays what the process left it.
construct(e) ==
    /\ op' = [hook |-> "construct", e |-> e]
    /\ version' = [version EXCEPT ![e] = None]
    /\ name' = [name EXCEPT ![e] = None]
    /\ resolved' = [resolved EXCEPT ![e] = Unset]
    /\ exc' = NoExc
    /\ gitLog' = <<>>
    /\ queried' = NoQuery
    /\ listing' = NoListing
    /\ located' = None
    /\ tool' = NoCmd
    /\ checkedOut' = None
    /\ copied' = FALSE
    /\ UNCHANGED <<hostNT, branch>>

\* set_version() on instance e.
set_version(e, b, t, cur, first, n) ==
    /\ op' = [hook |-> "set_version", e |-> e]
    /\ gitLog' = GitRan(b, t, cur, first)
    /\ branch' = IF b = Fail THEN branch ELSE b
    /\ resolved' = IF b = Fail THEN resolved ELSE [resolved EXCEPT ![e] = b]
    /\ queried' = [branch |-> b,
                    tag |-> IF Len(GitRan(b, t, cur, first)) >= 2 THEN t ELSE None,
                    commit |-> IF Len(GitRan(b, t, cur, first)) = 5 THEN n ELSE None]
    /\ exc' = VersionExc(b, t, cur, first, n)
    /\ version' = [version EXCEPT ![e] = VersionAfter(@, b, t, cur, first, n)]
    /\ listing' = NoListing
    /\ located' = None
    /\ tool' = NoCmd
    /\ checkedOut' = None
    /\ copied' = FALSE
    /\ UNCHANGED <<hostNT, name>>

\* set_name() on instance e, whose recipe folder lists as l.
set_name(e, l) ==
    /\ op' = [hook |-> "set_name", e |-> e]
    /\ listing' = l
    /\ located' = find_project_file(l)
    /\ name' = [name EXCEPT ![e] = ReplaceSpace(Lower(find_project_file(l)))]
    /\ exc' = NoExc
    /\ gitLog' = <<>>
    /\ queried' = NoQuery
    /\ tool' = NoCmd
    /\ checkedOut' = None
    /\ copied' = FALSE
    /\ UNCHANGED <<hostNT, branch, version, resolved>>

----------------------------------------------------------------------------
(* Build and package hooks *)

OSes == {"Windows", "Linux", "Macos"}

\* self.source_folder
SourceFolder == <<"s">>

\* os.path.join(folder, file): ntpath joins with a backslash, posixpath with a
\* slash.
PathJoin(folder, file) == folder \o <<IF hostNT THEN "\\" ELSE "/">> \o file

\* Lines 43 and 68: the path of the project file in the source folder.
ProjectPath(l) == PathJoin(SourceFolder, find_project_file(l) \o LvprojExt)

\* Whether open() finds a file of that name in a folder listing as l: names
\* differing in case are one file on Windows.
FileExists(l, file) ==
    \E i \in 1..Len(l) : Normcase(l[i]) = Normcase(file)

Quote == <<"\"">>
S_Version == <<" ", "-", "V", "e", "r", "s", "i", "o", "n", " ", "\"">>
S_Branch == <<" ", "-", "B", "r", "a", "n", "c", "h", " ", "\"">>
S_Debug == <<" ", "-", "D", "e", "b", "u", "g", " ", "\"", "T", "r", "u", "e", "\"">>
S_Open == <<" ", "\"">>

\* Line 66 with the test inverted.
NeedsDebug_Inverted(b) == b = B_master

\* Line 66: the test for a debug build.
NeedsDebug(b) == b # B_master

\* Lines 64-68: the parameters of LVBuild.vi.
build_params(v, b, path) ==
    S_Version \o v \o Quote
        \o S_Branch \o b \o Quote
        \o (IF NeedsDebug(b) THEN S_Debug ELSE <<>>)
        \o S_Open \o path \o Quote

\* The LVVersion attribute of the Project element of the project file: the
\* text read, the empty string when the attribute is absent, Fail when the
\* file is no XML document with a Project element.
XmlDocs == {Fail, <<>>, <<"2", "0", "0", "0">>, <<"8", "6">>}

\* Line 46: '20' + version[0:2]
labview_version(attr) ==
    <<"2", "0">> \o SubSeq(attr, 1, IF Len(attr) < 2 THEN Len(attr) ELSE 2)

\* The exception _run_vi_build() ends with, by the first statement that
\* raises: line 64 (self.version is None), line 65 (no class attribute
\* branch), line 68 (os.listdir), line 43 (open, parse and pop), line 61
\* (self.run) and line 72 (git reset).
BuildExc(v, b, l, xml, runOk, resetOk) ==
    IF v = None THEN "TypeError"
    ELSE IF b = Unset THEN "AttributeError"
    ELSE IF l = ListFail THEN "OSError"
    ELSE IF ~FileExists(l, find_project_file(l) \o LvprojExt) THEN "OSError"
    ELSE IF xml = Fail THEN "XmlError"
    ELSE IF ~runOk THEN "ConanException"
    ELSE IF ~resetOk THEN "GitError"
    ELSE NoExc

\* Whether _run_vi_build() reaches self.run() of line 61.
ToolReached(v, b, l, xml) ==
    BuildExc(v, b, l, xml, FALSE, FALSE) = "ConanException"

\* Lines 141 and 152 refusing Linux alone.
Supported_NotLinux(os) == os # "Linux"

\* Line 141 and line 152: the hooks run on Windows alone.
Supported(os) == os = "Windows"

\* build() on instance e with settings.os = os.
build(e, os, l, xml, runOk, resetOk) ==
    LET v == version[e]
        reached == Supported(os) /\ ToolReached(v, branch, l, xml)
    IN  /\ op' = [hook |-> "build", e |-> e, os |-> os]
        /\ exc' = IF Supported(os)
                  THEN BuildExc(v, branch, l, xml, runOk, resetOk)
                  ELSE "UnsupportedOS"
        /\ listing' = IF Supported(os) /\ v # None /\ branch # Unset /\ l # ListFail
                      THEN l ELSE NoListing
        /\ located' = IF Supported(os) /\ v # None /\ branch # Unset /\ l # ListFail
                      THEN find_project_file(l) ELSE None
        /\ tool' = IF reached
                   THEN [lv_version |-> labview_version(xml),
                         vi |-> "LVBuild.vi",
                         parameters |-> build_params(v, branch, ProjectPath(l))]
                   ELSE NoCmd
        /\ gitLog' = IF reached /\ runOk THEN <<GitReset>> ELSE <<>>
        /\ queried' = NoQuery
        /\ checkedOut' = None
        /\ copied' = FALSE
        /\ UNCHANGED <<hostNT, branch, version, name, resolved>>

\* package() on instance e with settings.os = os.
package(e, os) ==
    /\ op' = [hook |-> "package", e |-> e, os |-> os]
    /\ exc' = IF Supported(os) THEN NoExc ELSE "UnsupportedOS"
    /\ copied' = Supported(os)
    /\ gitLog' = <<>>
    /\ queried' = NoQuery
    /\ listing' = NoListing
    /\ located' = None
    /\ tool' = NoCmd
    /\ checkedOut' = None
    /\ UNCHANGED <<hostNT, branch, version, name, resolved>>

\* source() on instance e.  urlDefined: the recipe deriving from the class
\* defines gitURL (the class itself defines giturl).
source(e, urlDefined, cloneOk, checkoutOk) ==
    /\ op' = [hook |-> "source", e |-> e]
    /\ exc' = IF ~urlDefined THEN "AttributeError"
              ELSE IF ~cloneOk THEN "GitError"
              ELSE IF branch = Unset THEN "AttributeError"
              ELSE IF ~checkoutOk THEN "GitError"
              ELSE NoExc
    /\ gitLog' = IF ~urlDefined THEN <<>>
                 ELSE IF ~cloneOk \/ branch = Unset THEN <<GitClone>>
                 ELSE <<GitClone, GitCheckout>>
    /\ checkedOut' = IF urlDefined /\ cloneOk /\ branch # Unset
                     THEN branch ELSE None
    /\ queried' = NoQuery
    /\ listing' = NoListing
    /\ located' = None
    /\ tool' = NoCmd
    /\ copied' = FALSE
    /\ UNCHANGED <<hostNT, branch, version, name, resolved>>

----------------------------------------------------------------------------
(* Specifications *)

\* The process has loaded the class and constructed the recipe instances; no
\* hook has run.
Init ==
    /\ hostNT \in BOOLEAN
    /\ branch = Unset
    /\ version = [e \in Evals |-> None]
    /\ name = [e \in Evals |-> None]
    /\ resolved = [e \in Evals |-> Unset]
    /\ op = [hook |-> "none"]
    /\ exc = NoExc
    /\ gitLog = <<>>
    /\ queried = NoQuery
    /\ listing = NoListing
    /\ located = None
    /\ tool = NoCmd
    /\ checkedOut = None
    /\ copied = FALSE

GitAnswers(S) == S \cup {Fail}

\* The recipe life cycle: any instance runs set_version, source, build and
\* package, in any order and any number of times, and is replaced by a new
\* instance at any time, against a repository with one tag and a source
\* folder with or without a project file.
LifecycleTags == {T_1_2_3}
LifecycleCommits == {<<"5">>}
LifecycleListings == {<<N_a_lvproj>>, <<N_r_txt>>}
LifecycleXml == {Fail, <<"2", "0", "0", "0">>}

Next ==
    \/ \E e \in Evals : construct(e)
    \/ \E e \in Evals, b \in GitAnswers(Branches), t \in GitAnswers(LifecycleTags),
          n \in GitAnswers(LifecycleCommits) :
            set_version(e, b, t, CommitId, CommitId, n)
    \/ \E e \in Evals, urlDefined \in BOOLEAN, cloneOk \in BOOLEAN,
          checkoutOk \in BOOLEAN :
            source(e, urlDefined, cloneOk, checkoutOk)
    \/ \E e \in Evals, os \in OSes, l \in LifecycleListings \cup {ListFail},
          xml \in LifecycleXml, runOk \in BOOLEAN, resetOk \in BOOLEAN :
            build(e, os, l, xml, runOk, resetOk)
    \/ \E e \in Evals, os \in OSes : package(e, os)

Spec == Init /\ [][Next]_vars

\* The project locator alone: one instance names itself from every listing.
NextLocator == \E l \in Listings : set_name(1, l)

SpecLocator == Init /\ [][NextLocator]_vars

\* The version deriver alone: one instance derives its version from every
\* answer of git.
NextVersion ==
    \E b \in GitAnswers(Branches), t \in GitAnswers(Tags),
       cur \in GitAnswers({CommitId}), first \in GitAnswers({CommitId}),
       n \in GitAnswers(Commits) :
        set_version(1, b, t, cur, first, n)

SpecVersion == Init /\ [][NextVersion]_vars

----------------------------------------------------------------------------
(* Properties *)

\* The text s holds the text sub at position i.
IsAt(sub, s, i) ==
    /\ i >= 1
    /\ i + Len(sub) - 1 <= Len(s)
    /\ SubSeq(s, i, i + Len(sub) - 1) = sub

Positions(sub, s) == {i \in 1..Len(s) : IsAt(sub, s, i)}

AllDigits(s) == Len(s) > 0 /\ \A i \in 1..Len(s) : s[i] \in Digits

\* The call was set_version() and git answered every query.
VersionQueried ==
    /\ op.hook = "set_version"
    /\ queried.branch \notin {None, Fail}
    /\ queried.tag \notin {None, Fail}
    /\ queried.commit \notin {None, Fail}

\* C1: when set_version() resolves the branch as 'master' and every query
\* succeeds, it raises nothing and the version is the tag, unaltered, followed
\* by '.' and the commit count; tag 1.2.3 and 5 commits give 1.2.3.5.
C1_PrimaryVersion ==
    (VersionQueried /\ queried.branch = B_master) =>
        LET v == version[op.e]
            tag == queried.tag
        IN  /\ exc = NoExc
            /\ Len(v) = Len(tag) + 1 + Len(queried.commit)
            /\ SubSeq(v, 1, Len(tag)) = tag
            /\ v[Len(tag) + 1] = "."
            /\ SubSeq(v, Len(tag) + 2, Len(v)) = queried.commit
            /\ (tag = <<"1", ".", "2", ".", "3">> /\ queried.commit = <<"5">>
                  => v = <<"1", ".", "2", ".", "3", ".", "5">>)

C1_Witness ==
    /\ VersionQueried
    /\ queried.branch = B_master
    /\ queried.tag = T_1_2_3
    /\ queried.commit = <<"5">>
    /\ version[1] = <<"1", ".", "2", ".", "3", ".", "5">>

\* C2: when set_version() resolves another branch than 'master' and the tag is
\* major.minor.patch with a numeric patch, it raises nothing and the version
\* has four components: major and minor as in the tag, the patch plus one, and
\* the commit count; tag 1.2.3 and 5 commits give 1.2.4.5.
C2_BumpedVersion ==
    (/\ VersionQueried
     /\ queried.branch # B_master
     /\ Len(SplitDot(queried.tag)) = 3
     /\ AllDigits(SplitDot(queried.tag)[3])) =>
        LET vp == SplitDot(version[op.e])
            tp == SplitDot(queried.tag)
        IN  /\ exc = NoExc
            /\ Len(vp) = 4
            /\ vp[1] = tp[1]
            /\ vp[2] = tp[2]
            /\ AllDigits(vp[3])
            /\ IntOf(vp[3]) = IntOf(tp[3]) + 1
            /\ vp[4] = queried.commit
            /\ (queried.tag = <<"1", ".", "2", ".", "3">> /\ queried.commit = <<"5">>
                  => version[op.e] = <<"1", ".", "2", ".", "4", ".", "5">>)

C2_Witness ==
    /\ VersionQueried
    /\ queried.branch = B_dev
    /\ queried.tag = T_0_1_9
    /\ version[1] = <<"0", ".", "1", ".", "1", "0", ".", "1", "2">>

\* C3: when the branch query of set_version() fails, set_version() raises
\* nothing, runs no other git command and assigns the version '0.0.0.1'.
C3_Fallback ==
    (op.hook = "set_version" /\ queried.branch = Fail) =>
        /\ exc = NoExc
        /\ gitLog = <<GitBranch>>
        /\ version[op.e] = <<"0", ".", "0", ".", "0", ".", "1">>

C3_Witness ==
    /\ op.hook = "set_version"
    /\ queried.branch = Fail
    /\ version[1] = <<"0", ".", "0", ".", "0", ".", "1">>
    /\ branch = Unset

\* A query after the branch query failed in the call.
LaterQueryFailed ==
    /\ op.hook = "set_version"
    /\ queried.branch \notin {None, Fail}
    /\ (queried.tag = Fail \/ queried.commit \in {None, Fail})

\* C4: when the branch query succeeds and a later query fails, set_version()
\* ends with that failure and the version is what it was before the call: the
\* fallback is not applied.
C4_LaterFailureIsFatal ==
    [][LaterQueryFailed' => (exc' = "GitError" /\ version' = version)]_vars

C4_Witness ==
    /\ LaterQueryFailed
    /\ queried.tag = Fail
    /\ exc = "GitError"
    /\ version[1] = None

\* A component of the tag is not a number.
NonNumericComponent(tag) ==
    \E i \in 1..Len(SplitDot(tag)) : ~AllDigits(SplitDot(tag)[i])

\* C5 as claimed: whenever the tag has a non-numeric component, set_version()
\* ends in a parse error, on every branch.
C5_AnyNonNumericIsFatal ==
    (VersionQueried /\ NonNumericComponent(queried.tag)) => exc = "ValueError"

\* The tag is not three components of which the third is an integer literal
\* (digits, single underscores allowed between them).
UnparsablePatch(tag) ==
    \/ Len(SplitDot(tag)) # 3
    \/ LET fix == SplitDot(tag)[3]
       IN  \/ ~(\A i \in 1..Len(fix) : fix[i] \in Digits \cup {"_"})
           \/ Len(fix) = 0
           \/ fix[1] = "_"
           \/ fix[Len(fix)] = "_"
           \/ \E i \in 1..(Len(fix) - 1) : fix[i] = "_" /\ fix[i + 1] = "_"

\* C5 as amended: with every query answered, set_version() ends in a parse
\* error exactly when the branch is not 'master' and the tag is not three
\* components with an integer literal as the third; it then leaves the version
\* as it was.  On 'master' no tag is parsed and the version is assigned.
C5_ParseErrorOffPrimaryOnly ==
    [][VersionQueried' =>
          /\ (exc' = "ValueError") <=>
                (queried'.branch # B_master /\ UnparsablePatch(queried'.tag))
          /\ (exc' = "ValueError" => version' = version)
          /\ (queried'.branch = B_master =>
                /\ exc' = NoExc
                /\ version'[op'.e] = queried'.tag \o <<".">> \o queried'.commit)]_vars

C5_Witness ==
    /\ VersionQueried
    /\ queried.branch = B_dev
    /\ queried.tag = T_1_2_3a
    /\ exc = "ValueError"
    /\ version[1] = None

\* The call listed a directory and ran _find_project_file() on the listing.
Located == listing # NoListing /\ located # None

Matches == {i \in 1..Len(listing) : Fnmatch(listing[i])}

\* The first entry of the listing that matches '*.lvproj'.
FirstMatch == listing[CHOOSE i \in Matches : \A j \in Matches : i <= j]

\* A name matching '*.lvproj' without that extension.
WithoutExt(file) == SubSeq(file, 1, Len(file) - Len(LvprojExt))

\* C6: for every listing with a name matching '*.lvproj', what
\* _find_project_file() returns is the first matching name of the listing
\* without its extension.
C6_FirstMatchBaseName ==
    (Located /\ Matches # {}) => located = WithoutExt(FirstMatch)

\* What C6 says of the selection alone holds: the result is decided by the
\* first matching entry, whatever precedes and follows it.
C6_FirstMatchDecides ==
    (Located /\ Matches # {}) => located = find_project_file(<<FirstMatch>>)

\* C7: for every listing without a name matching '*.lvproj',
\* _find_project_file() returns the empty string and raises nothing.
C7_NoMatchIsEmpty ==
    (Located /\ Matches = {}) => (located = <<>> /\ exc = NoExc)

\* The settings.os of a build() or package() call.
HookOS == IF op.hook \in {"build", "package"} THEN op.os ELSE "none"

\* C8 as claimed: where settings.os is not Windows, build() and package()
\* raise and run no tool, no git command and no copy; on Windows build() hands
\* a command to the build tool and package() copies, without the
\* unsupported-OS error.
C8_WindowsOnly ==
    /\ (HookOS \notin {"none", "Windows"} =>
            /\ exc = "UnsupportedOS"
            /\ tool = NoCmd
            /\ gitLog = <<>>
            /\ ~copied)
    /\ (op.hook = "build" /\ HookOS = "Windows" =>
            tool # NoCmd /\ exc # "UnsupportedOS")
    /\ (op.hook = "package" /\ HookOS = "Windows" =>
            copied /\ exc # "UnsupportedOS")

\* C8 as amended: where settings.os is not Windows, build() and package()
\* raise the unsupported-OS error, run no tool, no git command and no copy and
\* change no attribute.  On Windows neither raises that error; package()
\* copies; build() hands a command to the build tool unless an earlier
\* statement of _run_vi_build() raised, and runs git reset only once the tool
\* has returned without error.
C8_WindowsOnlyAmended ==
    [][/\ (HookOS' \notin {"none", "Windows"} =>
              /\ exc' = "UnsupportedOS"
              /\ tool' = NoCmd
              /\ gitLog' = <<>>
              /\ ~copied'
              /\ <<branch, version, name>>' = <<branch, version, name>>)
       /\ (op'.hook = "build" /\ HookOS' = "Windows" =>
              /\ exc' # "UnsupportedOS"
              /\ (tool' # NoCmd) <=> (exc' \in {NoExc, "ConanException", "GitError"})
              /\ (gitLog' = <<GitReset>>) <=> (exc' \in {NoExc, "GitError"})
              /\ (gitLog' # <<GitReset>> => gitLog' = <<>>)
              /\ ~copied')
       /\ (op'.hook = "package" /\ HookOS' = "Windows" =>
              copied' /\ exc' = NoExc)]_vars

C8_Witness ==
    /\ op.hook = "build"
    /\ op.os = "Windows"
    /\ tool # NoCmd
    /\ gitLog = <<GitReset>>
    /\ exc = NoExc

\* C9: the parameters handed to the build command hold -Version with the
\* version, then -Branch with the cached branch, and end with the quoted path
\* of the project file; -Debug "True" stands between the two last exactly when
\* the cached branch is not 'master', and nowhere else.
C9_BuildParameters ==
    tool # NoCmd =>
        LET p == tool.parameters
            ver == <<" ", "-", "V", "e", "r", "s", "i", "o", "n", " ", "\"">>
                       \o version[op.e] \o <<"\"">>
            br == <<" ", "-", "B", "r", "a", "n", "c", "h", " ", "\"">>
                       \o branch \o <<"\"">>
            dbg == <<" ", "-", "D", "e", "b", "u", "g", " ", "\"",
                     "T", "r", "u", "e", "\"">>
            path == <<" ", "\"">> \o SourceFolder
                       \o <<IF hostNT THEN "\\" ELSE "/">>
                       \o located \o <<".", "l", "v", "p", "r", "o", "j", "\"">>
            last == Len(p) - Len(path) + 1
        IN  /\ IsAt(ver, p, 1)
            /\ IsAt(br, p, 1 + Len(ver))
            /\ IsAt(path, p, last)
            /\ 1 + Len(ver) + Len(br) <= last
            /\ IF branch # <<"m", "a", "s", "t", "e", "r">>
               THEN /\ Positions(dbg, p) = {1 + Len(ver) + Len(br)}
                    /\ last = 1 + Len(ver) + Len(br) + Len(dbg)
               ELSE /\ Positions(dbg, p) = {}
                    /\ last = 1 + Len(ver) + Len(br)

C9_Witness ==
    /\ tool # NoCmd
    /\ branch = B_dev
    /\ version[1] = <<"1", ".", "2", ".", "4", ".", "5">>
    /\ Positions(S_Debug, tool.parameters) # {}

\* C10: the branch source() checks out and the branch build() passes to the
\* build tool is the branch set_version() resolved for that same instance.
C10_BranchOfSameEvaluation ==
    /\ (op.hook = "source" /\ checkedOut # None =>
            checkedOut = resolved[op.e])
    /\ (op.hook = "build" /\ tool # NoCmd =>
            Positions(S_Branch \o resolved[op.e] \o Quote, tool.parameters) # {})

====
